---- MODULE Spec2Model ----
(***************************************************************************)
(* Asteroid-Impact: the calculation engine (Impact Radius/impact.py) and   *)
(* the interactive front end (main.py).                                    *)
(*                                                                         *)
(* Python objects are modelled as records [t, c, m, e]:                    *)
(*   t = "str"    a non-numeric object (isinstance(x, (int, float)) fails) *)
(*   t = "int"    a Python int of exact value m (c = "fin", e = 0)         *)
(*   t = "float"  a Python float: c = "nan", "inf", "ninf", or c = "fin"   *)
(*                with value m * 10^e, m = 0 or 100 <= |m| <= 999          *)
(*   t = "OverflowError"  the exception raised while evaluating an         *)
(*                expression (it propagates through the operators)         *)
(* Floats keep a bounded precision (three significant decimal digits,      *)
(* round half up) and a bounded exponent range (that of a double), so that *)
(* rounding, overflow and underflow happen in the model as they do in the  *)
(* interpreter.                                                            *)
(***************************************************************************)
EXTENDS Integers, Sequences, FiniteSets, TLC

\* Range of a double, in decimal exponents of the leading digit
\* (sys.float_info.max_10_exp and the smallest subnormal, 4.9e-324).
MaxExp10 == 308
MinExp10 == -324

\* ------------------------------------------------------------ values

Str == [t |-> "str", c |-> "none", m |-> 0, e |-> 0]
IntVal(v) == [t |-> "int", c |-> "fin", m |-> v, e |-> 0]
Fl(mm, ee) == [t |-> "float", c |-> "fin", m |-> mm, e |-> ee]
NaN == [t |-> "float", c |-> "nan", m |-> 0, e |-> 0]
Inf == [t |-> "float", c |-> "inf", m |-> 0, e |-> 0]
NegInf == [t |-> "float", c |-> "ninf", m |-> 0, e |-> 0]
Zero == Fl(0, 0)
OverflowError == [t |-> "OverflowError", c |-> "none", m |-> 0, e |-> 0]

Raised(x) == x.t = "OverflowError"

\* isinstance(x, (int, float))
IsNumeric(x) == x.t \in {"int", "float"}

\* 10 ** k, 0 <= k <= 9
Pow10(k) ==
    CASE k = 0 -> 1
      [] k = 1 -> 10
      [] k = 2 -> 100
      [] k = 3 -> 1000
      [] k = 4 -> 10000
      [] k = 5 -> 100000
      [] k = 6 -> 1000000
      [] k = 7 -> 10000000
      [] k = 8 -> 100000000
      [] k = 9 -> 1000000000

\* Mantissas of finite non-zero floats have three digits: MantLo .. MantHi.
MantLo == Pow10(2)
MantHi == Pow10(3) - 1

\* v ** n on ints, exact, for the exponents the program uses
IPow(v, n) ==
    CASE n = 1 -> v
      [] n = 2 -> v * v
      [] n = 3 -> v * v * v

Abs(v) == IF v < 0 THEN -v ELSE v
Sgn(v) == IF v < 0 THEN -1 ELSE IF v = 0 THEN 0 ELSE 1

\* how many low digits of a natural number lie beyond the mantissa
Excess(n) == Cardinality({k \in 3..9 : n >= Pow10(k)})

\* how many digits a non-zero natural number is short of a mantissa
Lack(n) == Cardinality({k \in 1..2 : n < Pow10(k)})

\* The finite float nearest to sg * n * 10^ee (n a natural number), or what
\* the operation yields when the exponent leaves the range: `over` above it,
\* 0.0 below it.
Rounded(sg, n, ee, over) ==
    IF n = 0 \/ sg = 0 THEN Zero
    ELSE LET k  == Excess(n)
             q  == n \div Pow10(k)
             r  == n % Pow10(k)
             up == IF 2 * r >= Pow10(k) THEN q + 1 ELSE q
             mm == IF k = 0 THEN n * Pow10(Lack(n))
                   ELSE IF up > MantHi THEN MantLo ELSE up
             e2 == IF k = 0 THEN ee - Lack(n)
                   ELSE IF up > MantHi THEN ee + k + 1 ELSE ee + k
         IN  IF e2 + 2 > MaxExp10 THEN over
             ELSE IF e2 + 2 < MinExp10 THEN Zero
             ELSE Fl(sg * mm, e2)

\* int -> float, as the interpreter converts an int operand of a float
\* operation
ToFloat(x) ==
    IF x.t = "int" THEN Rounded(Sgn(x.m), Abs(x.m), 0, OverflowError) ELSE x

SignOf(x) ==
    CASE x.c = "inf" -> 1
      [] x.c = "ninf" -> -1
      [] OTHER -> Sgn(x.m)

SignedInf(sg) == IF sg < 0 THEN NegInf ELSE Inf

\* ------------------------------------------------------- arithmetic

\* F(a), F(a, b) with each argument evaluated once
Bind(a, F(_)) == CHOOSE r \in {F(x) : x \in {a}} : TRUE
Bind2(a, b, F(_, _)) == CHOOSE r \in {F(x, y) : x \in {a}, y \in {b}} : TRUE

FloatMul(x, y) ==
    LET sg == SignOf(x) * SignOf(y)
    IN  IF Raised(x) \/ Raised(y) THEN OverflowError
        ELSE IF x.c = "nan" \/ y.c = "nan" THEN NaN
        ELSE IF x.c # "fin" \/ y.c # "fin"
             THEN IF sg = 0 THEN NaN ELSE SignedInf(sg)
        ELSE Rounded(sg, Abs(x.m) * Abs(y.m), x.e + y.e, SignedInf(sg))

MulOf(a, b) ==
    IF Raised(a) \/ Raised(b) THEN OverflowError
    ELSE IF a.t = "int" /\ b.t = "int" THEN IntVal(a.m * b.m)
    ELSE Bind2(ToFloat(a), ToFloat(b), FloatMul)

\* a * b: exact on two ints; otherwise an int operand is converted and the
\* product of the floats is rounded, inf when it leaves the range
Mul(a, b) == Bind2(a, b, MulOf)

PowOf(x, n) ==
    LET sg == IF n % 2 = 0 THEN SignOf(x) * SignOf(x) ELSE SignOf(x)
    IN  IF Raised(x) THEN OverflowError
        ELSE IF x.t = "int" THEN IntVal(IPow(x.m, n))
        ELSE IF x.c = "nan" THEN NaN
        ELSE IF x.c # "fin" THEN SignedInf(sg)
        ELSE Rounded(sg, IPow(Abs(x.m), n), x.e * n, OverflowError)

\* x ** n for an int literal n in 1..3: exact on an int, and on a float the
\* rounded power, OverflowError when the result leaves the range of a float
\* and 0.0 when it underflows
Pow(x, n) == Bind2(x, n, PowOf)

\* the largest r in lo .. hi with r^3 <= n, given lo^3 <= n
CbrtFloor(n, lo, hi) ==
    CHOOSE r \in lo..hi :
        r * r * r <= n /\ (r = hi \/ (r + 1) * (r + 1) * (r + 1) > n)

\* the cube root of n in MantLo^3 .. MantHi^3 + ..., to the nearest integer
\* (r + 1 is nearer than r when (2r + 1)^3 <= 8n)
CbrtNearest(n) ==
    LET Near(r) == IF 12 * r * r + 6 * r + 1 <= 8 * (n - r * r * r)
                   THEN r + 1 ELSE r
    IN  Bind(CbrtFloor(n, MantLo, MantHi), Near)

PowThirdOf(x) ==
    IF Raised(x) THEN OverflowError
    ELSE IF x.c = "nan" \/ SignOf(x) < 0 THEN NaN
    ELSE IF x.c = "inf" THEN Inf
    ELSE IF x.m = 0 THEN Zero
    ELSE LET k == 4 + ((x.e - 4) % 3)
         IN  Rounded(1, CbrtNearest(x.m * Pow10(k)), (x.e - k) \div 3, Inf)

\* x ** (1/3) for a float x >= 0: the cube root, rounded to the nearest
\* float
PowThird(x) == Bind(x, PowThirdOf)

FloatDiv(x, y) ==
    LET sg == SignOf(x) * SignOf(y)
    IN  IF Raised(x) \/ Raised(y) THEN OverflowError
        ELSE IF x.c = "nan" \/ y.c = "nan" THEN NaN
        ELSE IF x.c # "fin" THEN IF y.c # "fin" THEN NaN ELSE SignedInf(sg)
        ELSE IF y.c # "fin" THEN Zero
        ELSE Rounded(sg, (Abs(x.m) * 100000) \div Abs(y.m),
                     x.e - y.e - 5, SignedInf(sg))

DivOf(a, b) == Bind2(ToFloat(a), ToFloat(b), FloatDiv)

\* a / b for b # 0: the quotient of the floats, rounded
Div(a, b) == Bind2(a, b, DivOf)

\* ------------------------------------------------------ comparisons

FinLt(a, b) ==
    LET sa == Sgn(a.m)
        sb == Sgn(b.m)
    IN  IF sa # sb THEN sa < sb
        ELSE IF sa = 0 THEN FALSE
        ELSE IF sa > 0 THEN a.e < b.e \/ (a.e = b.e /\ a.m < b.m)
        ELSE a.e > b.e \/ (a.e = b.e /\ a.m < b.m)

FloatLt(x, y) ==
    /\ x.c # "nan" /\ y.c # "nan"
    /\ CASE x.c = "ninf" -> y.c # "ninf"
         [] x.c = "inf" -> FALSE
         [] y.c = "inf" -> TRUE
         [] y.c = "ninf" -> FALSE
         [] OTHER -> FinLt(x, y)

\* a < b on numbers; every comparison with nan is false
Lt(a, b) == \E x \in {ToFloat(a)}, y \in {ToFloat(b)} : FloatLt(x, y)

Gt(a, b) == Lt(b, a)

\* a <= b
Le(a, b) ==
    \E x \in {ToFloat(a)}, y \in {ToFloat(b)} :
        x.c # "nan" /\ y.c # "nan" /\ ~FloatLt(y, x)

Ge(a, b) == Le(b, a)

\* ------------------------------------- Impact Radius/impact.py

\* math.pi / 12
PiOver12 == Div(Fl(314, -2), IntVal(12))

severe_k == Fl(180, -6)
moderate_k == Fl(400, -6)
light_k == Fl(800, -6)

\* The validator with the speed test before the density test.
ValidationError_SpeedFirst(density, speed, diameter) ==
    IF ~(\A x \in {density, speed, diameter} : IsNumeric(x))
        THEN "All inputs must be numeric values"
    ELSE IF Le(speed, IntVal(0)) THEN "Speed must be positive"
    ELSE IF Le(density, IntVal(0)) THEN "Density must be positive"
    ELSE IF Le(diameter, IntVal(0)) THEN "Diameter must be positive"
    ELSE ""

\* The validator of calculate_impact_radius: the message of the ValueError
\* it raises, "" when it raises none.
ValidationError(density, speed, diameter) ==
    IF ~(\A x \in {density, speed, diameter} : IsNumeric(x))
        THEN "All inputs must be numeric values"
    ELSE IF Le(density, IntVal(0)) THEN "Density must be positive"
    ELSE IF Le(speed, IntVal(0)) THEN "Speed must be positive"
    ELSE IF Le(diameter, IntVal(0)) THEN "Diameter must be positive"
    ELSE ""

\* The kinetic energy with the diameter squared instead of cubed.
KineticEnergy_Squared(density, speed, diameter) ==
    Mul(Mul(Mul(PiOver12, density), Pow(diameter, 2)), Pow(speed, 2))

\* kinetic_energy = (math.pi / 12) * density * (diameter ** 3) * (speed ** 2)
KineticEnergy(density, speed, diameter) ==
    Mul(Mul(Mul(PiOver12, density), Pow(diameter, 3)), Pow(speed, 2))

\* The radius left in metres.
RadiusKm_Metres(k, kinetic_energy) == Mul(k, PowThird(kinetic_energy))

\* The radius with the coefficient divided by the cube root.
RadiusKm_Inverse(k, kinetic_energy) ==
    Div(Div(k, PowThird(kinetic_energy)), IntVal(1000))

\* k * (kinetic_energy ** (1/3)) / 1000
RadiusKm(k, kinetic_energy) ==
    Div(Mul(k, PowThird(kinetic_energy)), IntVal(1000))

\* The classification with inclusive thresholds.
Classification_Inclusive(severe_radius_km, moderate_radius_km) ==
    IF Ge(severe_radius_km, IntVal(5)) THEN "Severe"
    ELSE IF Ge(moderate_radius_km, IntVal(2)) THEN "Moderate"
    ELSE "Light"

Classification(severe_radius_km, moderate_radius_km) ==
    IF Gt(severe_radius_km, IntVal(5)) THEN "Severe"
    ELSE IF Gt(moderate_radius_km, IntVal(2)) THEN "Moderate"
    ELSE "Light"

NoResult ==
    [kinetic_energy_joules |-> Zero, severe_radius_km |-> Zero,
     moderate_radius_km |-> Zero, light_radius_km |-> Zero,
     damage_classification |-> "none"]

\* One call: how it ends (kind "return", "ValueError" or "OverflowError"),
\* the exception's message, whether the kinetic-energy line was executed,
\* and the dictionary it returns.
\* The dictionary built from the kinetic energy (lines 30 to 63).
Result(kinetic_energy) ==
    LET Dict(severe, moderate) ==
            [kinetic_energy_joules |-> kinetic_energy,
             severe_radius_km |-> severe,
             moderate_radius_km |-> moderate,
             light_radius_km |-> RadiusKm(light_k, kinetic_energy),
             damage_classification |-> Classification(severe, moderate)]
    IN  Bind2(RadiusKm(severe_k, kinetic_energy),
              RadiusKm(moderate_k, kinetic_energy), Dict)

Physics(kinetic_energy) ==
    IF Raised(kinetic_energy)
        THEN [kind |-> "OverflowError",
              msg |-> "Numerical result out of range",
              physics |-> TRUE, result |-> NoResult]
    ELSE [kind |-> "return", msg |-> "", physics |-> TRUE,
          result |-> Result(kinetic_energy)]

calculate_impact_radius(density, speed, diameter) ==
    LET Checked(err) ==
            IF err # ""
                THEN [kind |-> "ValueError", msg |-> err,
                      physics |-> FALSE, result |-> NoResult]
            ELSE Bind(KineticEnergy(density, speed, diameter), Physics)
    IN  Bind(ValidationError(density, speed, diameter), Checked)

\* ------------------------------------------------- text (main.py)

\* A line of input is a sequence of characters.
Whitespace == {" ", "\t"}
UpperCase == <<"A", "B", "C", "D", "E", "F", "G", "H", "I", "J", "K", "L", "M",
               "N", "O", "P", "Q", "R", "S", "T", "U", "V", "W", "X", "Y", "Z">>
LowerCase == <<"a", "b", "c", "d", "e", "f", "g", "h", "i", "j", "k", "l", "m",
               "n", "o", "p", "q", "r", "s", "t", "u", "v", "w", "x", "y", "z">>
Digits == <<"0", "1", "2", "3", "4", "5", "6", "7", "8", "9">>

\* str.strip()
strip(line) ==
    LET keep == {i \in 1..Len(line) : line[i] \notin Whitespace}
        Min(S) == CHOOSE i \in S : \A j \in S : i <= j
        Max(S) == CHOOSE i \in S : \A j \in S : i >= j
    IN  IF keep = {} THEN <<>> ELSE SubSeq(line, Min(keep), Max(keep))

\* str.lower()
lower(line) ==
    [i \in 1..Len(line) |->
        IF \E k \in 1..Len(UpperCase) : UpperCase[k] = line[i]
        THEN LowerCase[CHOOSE k \in 1..Len(UpperCase) : UpperCase[k] = line[i]]
        ELSE line[i]]

IsDigits(txt) ==
    \A i \in 1..Len(txt) : \E k \in 1..Len(Digits) : Digits[k] = txt[i]

DigitVal(ch) == (CHOOSE k \in 1..Len(Digits) : Digits[k] = ch) - 1

RECURSIVE NatOf(_)
\* the number a sequence of digits writes
NatOf(txt) ==
    IF txt = <<>> THEN 0
    ELSE 10 * NatOf(SubSeq(txt, 1, Len(txt) - 1)) + DigitVal(txt[Len(txt)])

ValueError == [t |-> "ValueError", c |-> "none", m |-> 0, e |-> 0]

Signed(txt) == txt # <<>> /\ txt[1] \in {"+", "-"}
Unsigned(txt) == IF Signed(txt) THEN SubSeq(txt, 2, Len(txt)) ELSE txt
SignIn(txt) == IF Signed(txt) /\ txt[1] = "-" THEN -1 ELSE 1

\* float(txt) on stripped text: [sign] digits [. digits] [e [sign] digits],
\* or inf, infinity, nan in any case; ValueError on anything else.  A
\* literal beyond the range of a float is inf, one below it 0.0.
ParseFloat(txt) ==
    LET sg    == SignIn(txt)
        body  == lower(Unsigned(txt))
        es    == {i \in 1..Len(body) : body[i] = "e"}
        epos  == IF es = {} THEN Len(body) + 1 ELSE CHOOSE i \in es : TRUE
        mant  == SubSeq(body, 1, epos - 1)
        expt  == SubSeq(body, epos + 1, Len(body))
        ds    == {i \in 1..Len(mant) : mant[i] = "."}
        dpos  == IF ds = {} THEN Len(mant) + 1 ELSE CHOOSE i \in ds : TRUE
        whole == SubSeq(mant, 1, dpos - 1)
        frac  == SubSeq(mant, dpos + 1, Len(mant))
        wellFormed ==
            /\ Cardinality(es) <= 1 /\ Cardinality(ds) <= 1
            /\ IsDigits(whole) /\ IsDigits(frac) /\ Len(whole) + Len(frac) > 0
            /\ es # {} => (Unsigned(expt) # <<>> /\ IsDigits(Unsigned(expt)))
        power == IF es = {} THEN 0 ELSE SignIn(expt) * NatOf(Unsigned(expt))
    IN  IF body \in {<<"i", "n", "f">>,
                     <<"i", "n", "f", "i", "n", "i", "t", "y">>}
            THEN SignedInf(sg)
        ELSE IF body = <<"n", "a", "n">> THEN NaN
        ELSE IF ~wellFormed THEN ValueError
        ELSE Rounded(sg, NatOf(whole \o frac), power - Len(frac), SignedInf(sg))

\* ------------------------------------------------------------ state

VARIABLES
    call,       \* the last call of calculate_impact_radius: arguments, outcome
    prev,       \* the call before it (two successive calls are compared)
    pc,         \* main(): where the front end stands
    density,    \* main(): the triple get_user_input returned last
    speed,
    diameter,
    entered,    \* get_user_input(): the fields accepted so far in this round
    another,    \* main(): the normalised answer to "Run another calculation?"
    analyses,   \* calls of print_impact_summary made by main()
    yes,        \* yes answers given
    shown,      \* what the last print_impact_summary printed
    said,       \* the last message main() or get_user_input() printed
    status      \* how the program stands: running, or how it ended

vars == <<call, prev, pc, density, speed, diameter, entered, another,
          analyses, yes, shown, said, status>>

engineVars == <<call, prev>>
cliVars == <<pc, density, speed, diameter, entered, another, analyses, yes,
             shown, said, status>>

None == [t |-> "None", c |-> "none", m |-> 0, e |-> 0]

NoCall == [args |-> <<None, None, None>>,
           out |-> [kind |-> "none", msg |-> "", physics |-> FALSE,
                    result |-> NoResult]]


\* Arguments a caller may pass: the literals of test_calculator.py, and
\* values at the edges of the validator and of the float range.
Densities ==
    {Str, IntVal(-1000), IntVal(0), NaN, IntVal(7800), IntVal(3000),
     Fl(100, 298)}
Speeds ==
    {Str, IntVal(0), Inf, IntVal(17000), IntVal(20000), Fl(100, 198),
     Fl(100, -202)}
Diameters ==
    {Str, IntVal(0), IntVal(-1), IntVal(50), IntVal(200), Fl(594, 0),
     Fl(408, 1), Fl(409, 1), Fl(500, 1), Fl(100, 198), Fl(100, -202)}

Invoke(d, s, m) ==
    [args |-> <<d, s, m>>, out |-> calculate_impact_radius(d, s, m)]

\* x > 0
Positive(x) == IsNumeric(x) /\ Gt(x, IntVal(0))

InitCli ==
    /\ pc = "density"
    /\ density = None /\ speed = None /\ diameter = None
    /\ entered = <<>>
    /\ another = <<>>
    /\ analyses = 0 /\ yes = 0
    /\ shown = "none"
    /\ said = ""
    /\ status = "running"

Init ==
    /\ call = NoCall
    /\ prev = NoCall
    /\ InitCli

\* A caller calls calculate_impact_radius(d, s, m).
Call ==
    /\ call = NoCall
    /\ \E d \in Densities, s \in Speeds, m \in Diameters :
           call' = Invoke(d, s, m)
    /\ UNCHANGED <<prev, cliVars>>

\* The caller has consumed the outcome; nothing of a call outlives it.
Discard ==
    /\ call # NoCall
    /\ call' = NoCall
    /\ prev' = NoCall
    /\ UNCHANGED cliVars

Next == Call \/ Discard

Spec == Init /\ [][Next]_vars

\* A caller makes two calls with positive arguments, one after the other.
CallAgain ==
    /\ prev = NoCall
    /\ \E d \in {x \in Densities : Positive(x)},
          s \in {x \in Speeds : Positive(x)},
          m \in {x \in Diameters : Positive(x)} :
           call' = Invoke(d, s, m)
    /\ prev' = call
    /\ UNCHANGED cliVars

NextPair == CallAgain \/ Discard

SpecPair == Init /\ [][NextPair]_vars

\* ---------------------------------------------------------- main.py

\* How many times the user may answer yes.
MaxYes == 2

\* What input() yields: a line, or the exception it raises.
Typed(line) == [ev |-> "line", text |-> line]
KeyboardInterrupt == [ev |-> "KeyboardInterrupt", text |-> <<>>]
EOFError == [ev |-> "EOFError", text |-> <<>>]

Lines ==
    {<<>>, <<"a", "b", "c">>, <<"-", "5">>, <<"0">>, <<"n", "a", "n">>,
     <<"1", "e", "2", "0", "0">>,
     <<" ", "2", ".", "5", "e", "2", " ">>,
     <<"y">>, <<" ", "Y", "E", "S", " ">>, <<"n">>, <<"N", "o">>,
     <<"m", "a", "y", "b", "e">>}

Events == {Typed(line) : line \in Lines} \cup {KeyboardInterrupt, EOFError}

\* The value of an entry: the default on an empty line, float() otherwise.
Entry(line, default) ==
    LET txt == strip(line)
    IN  IF txt = <<>> THEN default ELSE ParseFloat(txt)

\* The test of an entry with < in place of <=.
NotPositive_Strict(v) == Lt(v, IntVal(0))

\* if density <= 0 (and the same test on speed and on diameter)
NotPositive(v) == Le(v, IntVal(0))

\* print_impact_summary: what it prints, or the exception it lets through
print_impact_summary(d, s, m) ==
    LET Printed(out) ==
            CASE out.kind = "return" -> "report"
              [] out.kind = "ValueError" -> "Error"
              [] OTHER -> out.kind
    IN  Bind(calculate_impact_radius(d, s, m), Printed)

\* input() raises inside main(): KeyboardInterrupt says goodbye, anything
\* else is reported and ends the program with sys.exit(1).
Abort(ev) ==
    /\ ev.ev # "line"
    /\ pc' = "done"
    /\ status' = IF ev.ev = "KeyboardInterrupt" THEN "interrupted" ELSE "exit1"
    /\ said' = IF ev.ev = "KeyboardInterrupt"
               THEN "Calculator interrupted by user. Goodbye!"
               ELSE "An error occurred"
    /\ UNCHANGED <<density, speed, diameter, entered, another, analyses,
                   yes, shown>>

\* One pass of a prompt loop of get_user_input on a line: the entry is
\* refused (the loop prompts again) or accepted (the next field follows).
Prompt(line, default, name, Accept(_)) ==
    \E v \in {Entry(line, default)} :
        IF v = ValueError
            THEN /\ said' = "Please enter a valid number."
                 /\ UNCHANGED <<pc, density, speed, diameter, entered>>
        ELSE IF NotPositive(v)
            THEN /\ said' = name
                 /\ UNCHANGED <<pc, density, speed, diameter, entered>>
        ELSE Accept(v) /\ UNCHANGED said

ReadDensity ==
    /\ pc = "density"
    /\ \E ev \in Events :
        \/ Abort(ev)
        \/ /\ ev.ev = "line"
           /\ Prompt(ev.text, IntVal(7800),
                     "Density must be positive. Please try again.",
                     LAMBDA v : /\ entered' = <<v>>
                                /\ pc' = "speed"
                                /\ UNCHANGED <<density, speed, diameter>>)
           /\ UNCHANGED <<another, analyses, yes, shown, status>>
    /\ UNCHANGED engineVars

ReadSpeed ==
    /\ pc = "speed"
    /\ \E ev \in Events :
        \/ Abort(ev)
        \/ /\ ev.ev = "line"
           /\ Prompt(ev.text, IntVal(17000),
                     "Speed must be positive. Please try again.",
                     LAMBDA v : /\ entered' = Append(entered, v)
                                /\ pc' = "diameter"
                                /\ UNCHANGED <<density, speed, diameter>>)
           /\ UNCHANGED <<another, analyses, yes, shown, status>>
    /\ UNCHANGED engineVars

\* The last field: get_user_input returns the triple to main().
ReadDiameter ==
    /\ pc = "diameter"
    /\ \E ev \in Events :
        \/ Abort(ev)
        \/ /\ ev.ev = "line"
           /\ Prompt(ev.text, IntVal(50),
                     "Diameter must be positive. Please try again.",
                     LAMBDA v : /\ density' = entered[1]
                                /\ speed' = entered[2]
                                /\ diameter' = v
                                /\ entered' = <<>>
                                /\ pc' = "summary")
           /\ UNCHANGED <<another, analyses, yes, shown, status>>
    /\ UNCHANGED engineVars

\* main() calls print_impact_summary(density, speed, diameter); an
\* exception it lets through ends the program with sys.exit(1).
Summary ==
    /\ pc = "summary"
    /\ analyses' = analyses + 1
    /\ \E out \in {print_impact_summary(density, speed, diameter)} :
        IF out \in {"report", "Error"}
            THEN /\ shown' = out
                 /\ pc' = "ask"
                 /\ UNCHANGED <<said, status>>
        ELSE /\ said' = "An error occurred"
             /\ pc' = "done"
             /\ status' = "exit1"
             /\ UNCHANGED shown
    /\ UNCHANGED <<density, speed, diameter, entered, another, yes>>
    /\ UNCHANGED engineVars

\* The answer to "Run another calculation? (y/n): ".
Ask ==
    /\ pc = "ask"
    /\ \E ev \in Events :
        \/ Abort(ev)
        \/ /\ ev.ev = "line"
           /\ another' = lower(strip(ev.text))
           /\ IF another' \in {<<"y">>, <<"y", "e", "s">>}
                  THEN /\ yes < MaxYes
                       /\ yes' = yes + 1
                       /\ pc' = "density"
                       /\ UNCHANGED <<said, status>>
              ELSE IF another' \in {<<"n">>, <<"n", "o">>}
                  THEN /\ said' = "Thank you for using the Asteroid Impact Calculator!"
                       /\ pc' = "done"
                       /\ status' = "farewell"
                       /\ UNCHANGED yes
              ELSE /\ said' = "Please enter 'y' for yes or 'n' for no."
                   /\ UNCHANGED <<pc, yes, status>>
           /\ UNCHANGED <<density, speed, diameter, entered, analyses, shown>>
    /\ UNCHANGED engineVars

NextCli == ReadDensity \/ ReadSpeed \/ ReadDiameter \/ Summary \/ Ask

SpecCli == Init /\ [][NextCli]_vars

\* ------------------------------------------------------------ claims

Called == call # NoCall
Returned == call.out.kind = "return"
Density == call.args[1]
Speed == call.args[2]
Diameter == call.args[3]
Energy == call.out.result.kinetic_energy_joules
Severe == call.out.result.severe_radius_km
Moderate == call.out.result.moderate_radius_km
Light == call.out.result.light_radius_km
Label == call.out.result.damage_classification

\* lo <= x <= hi
Within(x, lo, hi) == Le(lo, x) /\ Le(x, hi)

\* a non-numeric or non-positive argument
Offending(x) == ~IsNumeric(x) \/ Le(x, IntVal(0))

\* the arguments' first offending field (1 density, 2 speed, 3 diameter)
FirstOffending(args) ==
    IF Offending(args[1]) THEN 1
    ELSE IF Offending(args[2]) THEN 2
    ELSE IF Offending(args[3]) THEN 3
    ELSE 0

\* the field a message names, 0 when it names none
FieldNamed(msg) ==
    CASE msg = "Density must be positive" -> 1
      [] msg = "Speed must be positive" -> 2
      [] msg = "Diameter must be positive" -> 3
      [] OTHER -> 0

FinitePositive(x) ==
    IsNumeric(x) /\ ToFloat(x).c = "fin" /\ Gt(x, IntVal(0))

\* C2, as stated: whenever the kinetic-energy line is executed, density,
\* speed and diameter are each a finite real number greater than zero.
C2_OnlyFinitePositiveReachPhysics ==
    (Called /\ call.out.physics) =>
        \A i \in 1..3 : FinitePositive(call.args[i])

\* C3: the label of a returned result is Severe iff severe_radius_km > 5,
\* Moderate iff severe_radius_km <= 5 and moderate_radius_km > 2, and Light
\* otherwise; a severe radius of exactly 5 is never Severe.
C3_ClassificationByPriority ==
    (Called /\ Returned) =>
        /\ Label \in {"Severe", "Moderate", "Light"}
        /\ Label = "Severe" <=> Gt(Severe, IntVal(5))
        /\ Label = "Moderate" <=>
               (Le(Severe, IntVal(5)) /\ Gt(Moderate, IntVal(2)))
        /\ Severe = Fl(500, -2) => Label # "Severe"

\* C3: a result whose severe radius is exactly 5 km has been returned, and
\* is Moderate.
C3_Witness ==
    /\ Called /\ Returned
    /\ Severe = Fl(500, -2)
    /\ Label = "Moderate"

\* C4, as stated, on finite positive arguments (which the validator
\* accepts): a call ends in a result or in a ValueError, and the call
\* returns a result with finite, positive kinetic energy and radii.
C4_PhysicsCannotFail ==
    Called =>
        /\ call.out.kind \in {"return", "ValueError"}
        /\ (\A i \in 1..3 : FinitePositive(call.args[i])) =>
               /\ ValidationError(Density, Speed, Diameter) = ""
               /\ Returned
               /\ \A x \in {Energy, Severe, Moderate, Light} :
                      FinitePositive(x)

\* C5, as stated, on finite arguments: the result of a call with three
\* positive arguments has
\* light_radius_km > moderate_radius_km > severe_radius_km > 0.
C5_RadiusOrdering ==
    (Called /\ Returned /\ \A i \in 1..3 : FinitePositive(call.args[i])) =>
        /\ Gt(Light, Moderate)
        /\ Gt(Moderate, Severe)
        /\ Gt(Severe, IntVal(0))

Scenario2 == <<IntVal(3000), IntVal(20000), IntVal(200)>>

\* C6, as stated: density=3000, speed=20000, diameter=200 is classified
\* Severe, with a severe radius above 5 km.
C6_Scenario2Severe ==
    (Called /\ call.args = Scenario2) =>
        Returned /\ Label = "Severe" /\ Gt(Severe, IntVal(5))

\* C6, amended: density=3000, speed=20000, diameter=200 is classified
\* Light: the severe radius is about 0.245 km, which does not exceed 5,
\* and the moderate radius about 0.544 km, which does not exceed 2.
C6_Scenario2Light ==
    (Called /\ call.args = Scenario2) =>
        /\ Returned /\ Label = "Light"
        /\ Within(Severe, Fl(240, -3), Fl(250, -3))
        /\ Within(Moderate, Fl(535, -3), Fl(555, -3))

\* C6: the call of scenario 2 has returned.
C6_Witness == Called /\ call.args = Scenario2 /\ Returned

Scenario1 == <<IntVal(7800), IntVal(17000), IntVal(50)>>

\* C8, as stated: density=7800, speed=17000, diameter=50 gives a kinetic
\* energy of about 4.34e14 J, radii of about 1.4, 3.1 and 6.2 km, and the
\* label Moderate.
C8_Scenario1Moderate ==
    (Called /\ call.args = Scenario1) =>
        /\ Returned /\ Label = "Moderate"
        /\ Within(Energy, Fl(430, 12), Fl(440, 12))
        /\ Within(Severe, Fl(135, -2), Fl(145, -2))
        /\ Within(Moderate, Fl(305, -2), Fl(315, -2))
        /\ Within(Light, Fl(615, -2), Fl(625, -2))

\* C8, amended: density=7800, speed=17000, diameter=50 gives a kinetic
\* energy of about 7.38e16 J, radii of about 0.075, 0.168 and 0.336 km,
\* and the label Light (the moderate radius does not exceed 2 km).
C8_Scenario1Light ==
    (Called /\ call.args = Scenario1) =>
        /\ Returned /\ Label = "Light"
        /\ Within(Energy, Fl(730, 14), Fl(745, 14))
        /\ Within(Severe, Fl(740, -4), Fl(770, -4))
        /\ Within(Moderate, Fl(165, -3), Fl(171, -3))
        /\ Within(Light, Fl(330, -3), Fl(341, -3))

\* C8: the call of scenario 1 has returned.
C8_Witness == Called /\ call.args = Scenario1 /\ Returned

\* Two calls have returned whose arguments differ in field i alone, the
\* later call having the larger one.
LargerIn(i) ==
    /\ prev # NoCall /\ Called
    /\ prev.out.kind = "return" /\ Returned
    /\ Gt(call.args[i], prev.args[i])
    /\ \A j \in 1..3 \ {i} : call.args[j] = prev.args[j]

Quantities ==
    {"kinetic_energy_joules", "severe_radius_km", "moderate_radius_km",
     "light_radius_km"}

YesAnswers == {<<"y">>, <<"y", "e", "s">>}
NoAnswers == {<<"n">>, <<"n", "o">>}

\* a step that reads an answer to "Run another calculation?"
Answers == pc = "ask" /\ status' = status /\ status = "running"
AnswersNo == pc = "ask" /\ status' = "farewell"

\* C9, as stated: a yes answer starts one round of entry, which is
\* followed by one analysis and then the prompt again; a no answer says
\* farewell and ends the loop without an analysis; any other answer runs
\* no analysis and asks again; so at the prompt and at the farewell the
\* analyses number one more than the yes answers, and only a no answer
\* ends the loop normally.
C9_LoopEffects ==
    /\ [][(Answers /\ another' \in YesAnswers) =>
            (pc' = "density" /\ yes' = yes + 1 /\ analyses' = analyses)]_vars
    /\ [][(Answers /\ another' \notin YesAnswers) =>
            (pc' = "ask" /\ yes' = yes /\ analyses' = analyses)]_vars
    /\ [][AnswersNo =>
            (another' \in NoAnswers /\ pc' = "done" /\ yes' = yes
             /\ analyses' = analyses)]_vars
    /\ [][(status' = "farewell") => (pc = "ask" \/ status = "farewell")]_vars
    /\ [][(pc \in {"density", "speed", "diameter"}) =>
            analyses' = analyses]_vars
    /\ [][(pc = "summary" /\ yes > 0) =>
            (analyses' = analyses + 1 /\ pc' = "ask")]_vars
    /\ []((pc = "ask" \/ status = "farewell") => analyses = 1 + yes)

\* a step of get_user_input that prompts for the same field again
Reprompts == pc \in {"density", "speed", "diameter"} /\ pc' = pc

\* C10: the triple get_user_input returned is accepted by the validator of
\* calculate_impact_radius, and print_impact_summary never prints "Error:";
\* an entry that is refused leaves the fields accepted so far as they were.
C10_EnteredTripleIsAccepted ==
    /\ [](pc = "summary" => ValidationError(density, speed, diameter) = "")
    /\ [](shown # "Error")
    /\ [][Reprompts => entered' = entered]_vars

\* C10: after a refused diameter, a triple with the density nan has been
\* analysed and reported.
C10_Witness ==
    /\ pc = "ask"
    /\ shown = "report"
    /\ density = NaN
    /\ said = "Diameter must be positive. Please try again."

====
